---------------------------- MODULE Spec2Model ----------------------------
(***************************************************************************)
(* Model of the watermark-eraser GAN trainer (src/train_GAN.py) and of the *)
(* PadResize transform (src/data/trans.py).                                *)
(*                                                                         *)
(*   Spec      one worker process, Trainer.train statement by statement    *)
(*   SpecDist  several worker processes, the epoch / evaluation /          *)
(*             reduction / checkpoint protocol (one action per training    *)
(*             step: the statements of a step touch process-local state    *)
(*             only)                                                       *)
(*   SpecPad   PadResize.__call__ on bounded image sizes                   *)
(***************************************************************************)
EXTENDS Integers, Sequences, FiniteSets

VARIABLES
    args,       \* [epochs, log_step, bs]: the parsed command line
    world,      \* [nodes, per_node]: the launched process grid
    data,       \* [ntrain, ntest]: len(self.train_loader), len(self.data_test)
    tr,         \* tr[p]: the Trainer object and train()/test() frame of process p
                \* (with the log records and checkpoint files it has written)
    coll,       \* coll[p][k]: what process p handed to its k-th all-reduce
    img,        \* [w, h]: img.size of the image given to PadResize.__call__
    pad,        \* [w, make_pad]: the PadResize object
    out         \* the result of PadResize.__call__ (pc = "idle" before the call)

vars == <<args, world, data, tr, coll, img, pad, out>>

--------------------------------------------------------------------------
(* Bounds of the model.                                                    *)

MaxEpochs == 2
MaxLogStep == 2
MaxBatches == 2
MaxTest == 2
MaxBs == 2
MaxProcs == 2
MaxLoss == 1
MaxPsnr == 1
MaxW == 12
MaxH == 16

--------------------------------------------------------------------------
(* Python float arithmetic: IEEE-754 binary64, round to nearest even.  A   *)
(* float is [m, exp]: m is the 53-bit significand and the value is         *)
(* m * 2^exp.  Significands and the exact intermediate results are         *)
(* integers in base 2^15, least significant digit first, so that every     *)
(* machine operation stays below 2^31 for operands below 2^15.             *)

Mantissa == 53

Base == 2^15

RECURSIVE Strip(_)
\* without the leading zero digits
Strip(X) ==
    IF X # <<>> /\ X[Len(X)] = 0 THEN Strip(SubSeq(X, 1, Len(X) - 1)) ELSE X

BigFromInt(n) ==
    Strip(<<n % Base, (n \div Base) % Base, n \div (Base * Base)>>)

RECURSIVE BigToInt(_, _)
BigToInt(X, i) ==
    IF i > Len(X) THEN 0 ELSE X[i] + Base * BigToInt(X, i + 1)

RECURSIVE MulFrom(_, _, _, _)
MulFrom(X, i, carry, s) ==
    IF i > Len(X) THEN (IF carry = 0 THEN <<>> ELSE <<carry>>)
    ELSE LET t == X[i] * s + carry
         IN  <<t % Base>> \o MulFrom(X, i + 1, t \div Base, s)

\* X * s, 0 <= s <= Base
BigMulSmall(X, s) == Strip(MulFrom(X, 1, 0, s))

RECURSIVE DivFrom(_, _, _, _, _)
DivFrom(X, i, r, d, acc) ==
    IF i = 0 THEN [q |-> Strip(acc), r |-> r]
    ELSE LET t == r * Base + X[i]
         IN  DivFrom(X, i - 1, t % d, d, <<t \div d>> \o acc)

\* X \div d and X % d, 1 <= d <= Base
BigDivSmall(X, d) == DivFrom(X, Len(X), 0, d, <<>>)

RECURSIVE AddOne(_, _)
AddOne(X, i) ==
    IF i > Len(X) THEN Append(X, 1)
    ELSE IF X[i] + 1 < Base THEN [X EXCEPT ![i] = X[i] + 1]
    ELSE AddOne([X EXCEPT ![i] = 0], i + 1)

RECURSIVE IntBitLen(_)
IntBitLen(n) == IF n = 0 THEN 0 ELSE 1 + IntBitLen(n \div 2)

BitLen(X) ==
    IF X = <<>> THEN 0 ELSE 15 * (Len(X) - 1) + IntBitLen(X[Len(X)])

RECURSIVE ShiftLeft(_, _)
\* X * 2^j
ShiftLeft(X, j) ==
    IF j = 0 THEN X
    ELSE IF j > 15 THEN ShiftLeft(BigMulSmall(X, Base), j - 15)
    ELSE BigMulSmall(X, 2^j)

RECURSIVE ShiftRight(_, _, _)
\* X \div 2^j, and whether a nonzero bit was shifted out
ShiftRight(X, j, sticky) ==
    IF j = 0 THEN [q |-> X, sticky |-> sticky]
    ELSE LET n == IF j > 15 THEN 15 ELSE j
             s == BigDivSmall(X, 2^n)
         IN  ShiftRight(s.q, j - n, sticky \/ s.r # 0)

\* Round to nearest, ties to even: Q is the exact result cut to Mantissa + 1
\* bits (the last one is the guard bit), sticky says whether anything
\* nonzero lies below it, exp is the weight of the significand's last bit.
RoundNearestEven(Q, sticky, exp) ==
    LET half == BigDivSmall(Q, 2)
        m    == half.q
        up   == half.r = 1 /\ (sticky \/ m[1] % 2 = 1)
        m1   == IF up THEN AddOne(m, 1) ELSE m
    IN  IF BitLen(m1) > Mantissa
        THEN [m |-> BigDivSmall(m1, 2).q, exp |-> exp + 1]
        ELSE [m |-> m1, exp |-> exp]

RECURSIVE ScaleUp(_, _, _)
\* h < w: the j with w <= h * 2^j < 2w
ScaleUp(n, d, j) == IF n >= d THEN 0 - j ELSE ScaleUp(2 * n, d, j + 1)

RECURSIVE ScaleDown(_, _, _)
\* h >= w: the j with w * 2^j <= h < w * 2^(j+1)
ScaleDown(n, d, j) == IF n < 2 * d THEN j ELSE ScaleDown(n, 2 * d, j + 1)

\* h / w for Python ints 1 <= h, w < Base: the correctly rounded quotient.
TrueDiv(h, w) ==
    LET k == IF h >= w THEN ScaleDown(h, w, 0) ELSE ScaleUp(h, w, 0)
        d == BigDivSmall(ShiftLeft(BigFromInt(h), Mantissa - k), w)
    IN  RoundNearestEven(d.q, d.r # 0, k - (Mantissa - 1))

\* x * s for a float x and a Python int 1 <= s < Base (s converts exactly).
FloatMulInt(x, s) ==
    LET P  == BigMulSmall(x.m, s)
        L  == BitLen(P)
        sh == ShiftRight(P, L - (Mantissa + 1), FALSE)
    IN  IF L = Mantissa THEN [m |-> P, exp |-> x.exp]
        ELSE RoundNearestEven(sh.q, sh.sticky, x.exp + (L - Mantissa))

\* int(x) for a float x >= 0: truncation.
FloatToInt(x) ==
    IF x.exp >= 0 THEN BigToInt(ShiftLeft(x.m, x.exp), 1)
    ELSE BigToInt(ShiftRight(x.m, 0 - x.exp, FALSE).q, 1)

--------------------------------------------------------------------------
(* src/data/trans.py: PadResize                                            *)

\* hs = int((h/w)*self.w)
ScaledHeight(w, h, S) == FloatToInt(FloatMulInt(TrueDiv(h, w), S))

\* F.resize(img, [hs, self.w], ...): the image becomes self.w wide, hs high.
Resize(hs, S) == [w |-> S, h |-> hs]

\* variant: hs<=self.w
MakesPad_le(mp, hs, S) == mp /\ hs <= S

\* self.make_pad and hs<self.w
MakesPad(mp, hs, S) == mp /\ hs < S

\* F.pad(img, [left, top, right, bottom])
Pad(im, left, top, right, bottom) ==
    [w |-> im.w + left + right, h |-> im.h + top + bottom]

PadResizeCall(w, h, S, mp) ==
    LET hs      == ScaledHeight(w, h, S)
        resized == Resize(hs, S)
        h_pad   == (S - hs) \div 2
    IN  IF MakesPad(mp, hs, S)
        THEN [pc |-> "done", hs |-> hs, padded |-> TRUE,
              left |-> 0, top |-> h_pad, right |-> 0, bottom |-> (S - hs) - h_pad,
              size |-> Pad(resized, 0, h_pad, 0, (S - hs) - h_pad)]
        ELSE [pc |-> "done", hs |-> hs, padded |-> FALSE,
              left |-> 0, top |-> 0, right |-> 0, bottom |-> 0,
              size |-> resized]

NoOut ==
    [pc |-> "idle", hs |-> 0, padded |-> FALSE,
     left |-> 0, top |-> 0, right |-> 0, bottom |-> 0, size |-> [w |-> 0, h |-> 0]]

--------------------------------------------------------------------------
(* src/train_GAN.py: the launched processes                                *)

\* self.accelerator.num_processes: ranks 0 .. world_size - 1, laid out node
\* by node.
world_size == world.nodes * world.per_node

Procs == 0..(world_size - 1)

local_process_index(p) == p % world.per_node

\* self.accelerator.is_local_main_process: rank 0 of each node
is_local_main_process(p) == local_process_index(p) = 0

Nets == {"G", "D"}

\* torch.optim.AdamW(self.net_G.parameters(), ...): the parameters the
\* generator's optimizer holds
optimizer == {"G"}

\* torch.optim.AdamW(self.net_D.parameters(), ...)
optimizer_D == {"D"}

\* A freshly built nn.Module: training mode, parameters requiring grad, no
\* gradient yet.  params counts the updates its parameters have received.
NewModule == [training |-> TRUE, requires_grad |-> TRUE, params |-> 0, grad |-> "none"]

NoLoss == [item |-> 0, graph |-> {}]

\* The Trainer after __init__, before train() is called.  step = -1: the
\* loop variable is not bound yet.  logging: logger.add on the local main
\* process, logger.disable on the others.
NewTrainer(p) ==
    [pc |-> 94, ep |-> -1, step |-> -1, it |-> 0,
     net |-> [n \in Nets |-> NewModule],
     fake_A |-> {}, fake_B |-> {}, pred_fake_A |-> {},
     pred_real |-> {}, pred_img_fake |-> {}, pred_fake |-> {},
     loss |-> NoLoss,
     loss_sum_G |-> 0, loss_sum_D |-> 0, acc_G |-> 0, acc_D |-> 0,
     psnr |-> 0, tit |-> 0, seen |-> 0, in_reduce |-> FALSE,
     report |-> <<>>, totals |-> <<>>,
     logging |-> is_local_main_process(p),
     nlog |-> 0, log |-> [kind |-> "none"],
     files |-> <<>>]

--------------------------------------------------------------------------
(* autograd and the optimizers.  A tensor is the set of networks whose     *)
(* parameters its autograd graph reaches.                                  *)

\* net(x): the result's graph reaches net's parameters when they require
\* grad, and whatever the input's graph reaches.
Forward(r, n, x) == x \cup (IF r.net[n].requires_grad THEN {n} ELSE {})

\* x.detach()
Detach(x) == {}

\* self.accelerator.backward(loss): every parameter the graph reaches gets
\* a gradient.
Backward(r) ==
    [n \in Nets |-> IF n \in r.loss.graph
                    THEN [r.net[n] EXCEPT !.grad = "set"] ELSE r.net[n]]

\* opt.zero_grad()
ZeroGrad(r, opt) ==
    [n \in Nets |-> IF n \in opt THEN [r.net[n] EXCEPT !.grad = "none"] ELSE r.net[n]]

\* opt.step(): AdamW updates each of its parameters that holds a gradient.
OptStep(r, opt) ==
    [n \in Nets |-> IF n \in opt /\ r.net[n].grad # "none"
                    THEN [r.net[n] EXCEPT !.params = @ + 1] ELSE r.net[n]]

--------------------------------------------------------------------------
(* Trainer.train, statement by statement: each operator maps the process   *)
(* state before the statement at that line to the state after it.          *)

\* 94: loss_sum_G, loss_sum_D = 0, 0
L94(r) == [r EXCEPT !.loss_sum_G = 0, !.loss_sum_D = 0, !.pc = 95]

\* 95: for ep in range(self.args.epochs)
L95(r) ==
    IF r.ep + 1 < args.epochs
    THEN [r EXCEPT !.ep = r.ep + 1, !.it = 0, !.pc = 96]
    ELSE [r EXCEPT !.pc = 0]

\* variant: enumerate(self.train_loader, 1)
L96_from_one(r) ==
    IF r.it < data.ntrain
    THEN [r EXCEPT !.step = r.it + 1, !.it = r.it + 1, !.pc = 102]
    ELSE [r EXCEPT !.pc = 145]

\* 96: for step, (...) in enumerate(self.train_loader)
L96(r) ==
    IF r.it < data.ntrain
    THEN [r EXCEPT !.step = r.it, !.it = r.it + 1, !.pc = 102]
    ELSE [r EXCEPT !.pc = 145]

\* 102: self.net_G.train()
L102(r) == [r EXCEPT !.net["G"].training = TRUE, !.pc = 103]

\* 103: self.net_G.requires_grad_(True)
L103(r) == [r EXCEPT !.net["G"].requires_grad = TRUE, !.pc = 104]

\* variant: the discriminator is left in train mode
L104_no_eval(r) == [r EXCEPT !.pc = 105]

\* 104: self.net_D.eval()
L104(r) == [r EXCEPT !.net["D"].training = FALSE, !.pc = 105]

\* variant: the discriminator is left trainable
L105_unfrozen(r) == [r EXCEPT !.pc = 106]

\* 105: self.net_D.requires_grad_(False)
L105(r) == [r EXCEPT !.net["D"].requires_grad = FALSE, !.pc = 106]

\* 106: self.optimizer.zero_grad()
L106(r) == [r EXCEPT !.net = ZeroGrad(r, optimizer), !.pc = 108]

\* 108: fake_A = self.net_G(img)
L108(r) == [r EXCEPT !.fake_A = Forward(r, "G", {}), !.pc = 109]

\* 109: fake_B = self.net_G(fake_mark)
L109(r) == [r EXCEPT !.fake_B = Forward(r, "G", {}), !.pc = 110]

\* 110: pred_fake_A = self.net_D(fake_A)
L110(r) == [r EXCEPT !.pred_fake_A = Forward(r, "D", r.fake_A), !.pc = 111]

\* 111: loss = criterion_gan(pred_fake_A, valid) + alpha*criterion(img_clean, fake_B)
L111(r, v) ==
    [r EXCEPT !.loss = [item |-> v, graph |-> r.pred_fake_A \cup r.fake_B], !.pc = 113]

\* 113: self.accelerator.backward(loss)
L113(r) == [r EXCEPT !.net = Backward(r), !.pc = 114]

\* variant: the discriminator's optimizer is stepped in the generator phase
L114_wrong_optimizer(r) == [r EXCEPT !.net = OptStep(r, {"D"}), !.pc = 117]

\* 114: self.optimizer.step()
L114(r) == [r EXCEPT !.net = OptStep(r, optimizer), !.pc = 117]

\* 117: loss_sum_G += loss.item()
L117(r) ==
    [r EXCEPT !.loss_sum_G = @ + r.loss.item, !.acc_G = @ + 1, !.pc = 120]

\* 120: self.net_G.eval()
L120(r) == [r EXCEPT !.net["G"].training = FALSE, !.pc = 121]

\* 121: self.net_G.requires_grad_(False)
L121(r) == [r EXCEPT !.net["G"].requires_grad = FALSE, !.pc = 122]

\* 122: self.net_D.train()
L122(r) == [r EXCEPT !.net["D"].training = TRUE, !.pc = 123]

\* 123: self.net_D.requires_grad_(True)
L123(r) == [r EXCEPT !.net["D"].requires_grad = TRUE, !.pc = 124]

\* 124: self.optimizer_D.zero_grad()
L124(r) == [r EXCEPT !.net = ZeroGrad(r, optimizer_D), !.pc = 126]

\* 126: pred_real = self.net_D(img_clean)
L126(r) == [r EXCEPT !.pred_real = Forward(r, "D", {}), !.pc = 127]

\* 127: pred_img_fake = self.net_D(img)
L127(r) == [r EXCEPT !.pred_img_fake = Forward(r, "D", {}), !.pc = 128]

\* 128: pred_fake = self.net_D(fake_A.detach())
L128(r) == [r EXCEPT !.pred_fake = Forward(r, "D", Detach(r.fake_A)), !.pc = 130]

\* 130: loss = (criterion_gan(pred_real, valid) + criterion_gan(pred_fake, fake)
\*              + criterion_gan(pred_img_fake, fake))/2
L130(r, v) ==
    [r EXCEPT !.loss = [item |-> v,
                        graph |-> r.pred_real \cup r.pred_fake \cup r.pred_img_fake],
              !.pc = 132]

\* 132: self.accelerator.backward(loss)
L132(r) == [r EXCEPT !.net = Backward(r), !.pc = 133]

\* 133: self.optimizer_D.step()
L133(r) == [r EXCEPT !.net = OptStep(r, optimizer_D), !.pc = 136]

\* 136: loss_sum_D += loss.item()
L136(r) ==
    [r EXCEPT !.loss_sum_D = @ + r.loss.item, !.acc_D = @ + 1, !.pc = 138]

\* 138: if step % self.args.log_step == 0
L138(r) ==
    IF r.step % args.log_step = 0 THEN [r EXCEPT !.pc = 139] ELSE [r EXCEPT !.pc = 96]

\* 139-142: logger.info(f'[{ep+1}/..]<{step+1}/..>, loss_G:{loss_sum_G / log_step}, ...')
\* The record keeps the two sums and the divisor, and how many steps each
\* sum holds.
WindowRecord(r) ==
    [kind |-> "loss", ep |-> r.ep + 1, step |-> r.step + 1,
     sum_G |-> r.loss_sum_G, sum_D |-> r.loss_sum_D, div |-> args.log_step,
     n_G |-> r.acc_G, n_D |-> r.acc_D]

L139(r) ==
    IF r.logging
    THEN [r EXCEPT !.log = WindowRecord(r), !.nlog = @ + 1, !.pc = 143]
    ELSE [r EXCEPT !.pc = 143]

\* 143: loss_sum_G = 0
L143(r) == [r EXCEPT !.loss_sum_G = 0, !.acc_G = 0, !.pc = 144]

\* 144: loss_sum_D = 0
L144(r) == [r EXCEPT !.loss_sum_D = 0, !.acc_D = 0, !.pc = 96]

\* variant: only the logging process evaluates
L145_main_only(r) == IF r.logging THEN [r EXCEPT !.pc = 151] ELSE [r EXCEPT !.pc = 146]

\* 145: self.test()
L145(r) == [r EXCEPT !.pc = 151]

\* 146: if self.accelerator.is_local_main_process
L146(r, p) ==
    IF is_local_main_process(p) THEN [r EXCEPT !.pc = 147] ELSE [r EXCEPT !.pc = 95]

\* 147: torch.save(self.net_G.state_dict(), f'output_GAN/ep_{ep}.pth')
L147(r) == [r EXCEPT !.files = Append(@, r.ep), !.pc = 95]

--------------------------------------------------------------------------
(* Trainer.test                                                            *)

Min(a, b) == IF a < b THEN a ELSE b

\* len(self.test_loader): self.test_loader is the DataLoader build_data made
\* over the whole of self.data_test (batch_size = bs, shuffle = False); the
\* loaders accelerator.prepare returns are bound to the locals train_loader
\* and val_loader of __init__ and never used.
test_loader_len == (data.ntest + args.bs - 1) \div args.bs

\* the number of samples in batch b (0-based) of self.test_loader
test_batch_size(b) == Min(args.bs, data.ntest - b * args.bs)

\* 151: self.net_G.eval()
L151(r) == [r EXCEPT !.net["G"].training = FALSE, !.pc = 154]

\* 152-154: psnr=0
L154(r) == [r EXCEPT !.psnr = 0, !.tit = 0, !.seen = 0, !.pc = 155]

\* 155: for step, (...) in enumerate(self.test_loader)
L155(r) ==
    IF r.tit < test_loader_len THEN [r EXCEPT !.pc = 159] ELSE [r EXCEPT !.pc = 164]

\* 156-159: pred = self.net_G(img), under torch.no_grad()
L159(r) == [r EXCEPT !.pc = 161]

\* 161: psnr+=cal_psnr(pred, img_clean, mean, std).sum().item()
\* v is the sum of the batch's per-sample PSNR values.
L161(r, v) ==
    [r EXCEPT !.psnr = @ + v, !.seen = @ + test_batch_size(r.tit),
              !.tit = @ + 1, !.pc = 155]

\* 163-164, the call: psnr = self.accelerator.reduce(psnr, reduction="sum")
\* The process hands its local sum to the all-reduce and blocks.
L164_call(r) == [r EXCEPT !.in_reduce = TRUE]

\* what process p hands over (seen rides along for the record)
Contribution(r) == [v |-> r.psnr, k |-> r.seen]

RECURSIVE SumTo(_, _, _)
\* the sum over ranks 0..n of f[rank][k].x for x = "v" or "k"
SumTo(n, k, x) ==
    IF n < 0 THEN 0
    ELSE (IF x = "v" THEN coll[n][k].v ELSE coll[n][k].k) + SumTo(n - 1, k, x)

\* An all-reduce completes once every process has made its k-th call.
ReduceReady(k) == \A q \in Procs : Len(coll[q]) >= k

ReduceSum(k) == SumTo(world_size - 1, k, "v")

\* 164, the return: every process gets the total.
L164_return(r, total) ==
    [r EXCEPT !.psnr = total, !.totals = Append(@, total),
              !.in_reduce = FALSE, !.pc = 166]

\* 166: logger.info(f'psnr: {psnr/len(self.data_test):.3f}')
L166(r) ==
    LET rep == [num |-> r.psnr, den |-> data.ntest, ep |-> r.ep]
    IN  IF r.logging
        THEN [r EXCEPT !.report = rep, !.nlog = @ + 1,
                       !.log = [kind |-> "psnr", num |-> rep.num, den |-> rep.den],
                       !.pc = 146]
        ELSE [r EXCEPT !.report = rep, !.pc = 146]

--------------------------------------------------------------------------
(* One optimization step as a whole (lines 102-144).                       *)

GeneratorPhase(r, v) ==
    L117(L114(L113(L111(L110(L109(L108(L106(L105(L104(L103(L102(r)))))))), v))))

DiscriminatorPhase(r, v) ==
    L136(L133(L132(L130(L128(L127(L126(L124(L123(L122(L121(L120(r)))))))), v))))

LoggingCheckpoint(r) ==
    LET a == L138(r) IN IF a.pc = 139 THEN L144(L143(L139(a))) ELSE a

StepBody(r, vg, vd) ==
    LoggingCheckpoint(DiscriminatorPhase(GeneratorPhase(r, vg), vd))

--------------------------------------------------------------------------
(* Actions: one per statement.                                             *)

\* loss.item() of a step, and a sample's PSNR: opaque values of the
\* networks, drawn from a small range.
LossValues == 1..MaxLoss

BatchPsnrSums(b) == test_batch_size(b)..(test_batch_size(b) * MaxPsnr)

At(p, line) == tr[p].pc = line

Local(p, r) ==
    /\ tr' = [tr EXCEPT ![p] = r]
    /\ UNCHANGED <<args, world, data, coll, img, pad, out>>

TrainBegin(p) == At(p, 94) /\ Local(p, L94(tr[p]))

EpochLoop(p) == At(p, 95) /\ Local(p, L95(tr[p]))

StepLoop(p) == At(p, 96) /\ Local(p, L96(tr[p]))

net_G_train(p) == At(p, 102) /\ Local(p, L102(tr[p]))

net_G_requires_grad_True(p) == At(p, 103) /\ Local(p, L103(tr[p]))

net_D_eval(p) == At(p, 104) /\ Local(p, L104(tr[p]))

net_D_requires_grad_False(p) == At(p, 105) /\ Local(p, L105(tr[p]))

optimizer_zero_grad(p) == At(p, 106) /\ Local(p, L106(tr[p]))

fake_A_forward(p) == At(p, 108) /\ Local(p, L108(tr[p]))

fake_B_forward(p) == At(p, 109) /\ Local(p, L109(tr[p]))

pred_fake_A_forward(p) == At(p, 110) /\ Local(p, L110(tr[p]))

loss_G(p) == At(p, 111) /\ \E v \in LossValues : Local(p, L111(tr[p], v))

backward_G(p) == At(p, 113) /\ Local(p, L113(tr[p]))

optimizer_step(p) == At(p, 114) /\ Local(p, L114(tr[p]))

loss_sum_G_add(p) == At(p, 117) /\ Local(p, L117(tr[p]))

net_G_eval(p) == At(p, 120) /\ Local(p, L120(tr[p]))

net_G_requires_grad_False(p) == At(p, 121) /\ Local(p, L121(tr[p]))

net_D_train(p) == At(p, 122) /\ Local(p, L122(tr[p]))

net_D_requires_grad_True(p) == At(p, 123) /\ Local(p, L123(tr[p]))

optimizer_D_zero_grad(p) == At(p, 124) /\ Local(p, L124(tr[p]))

pred_real_forward(p) == At(p, 126) /\ Local(p, L126(tr[p]))

pred_img_fake_forward(p) == At(p, 127) /\ Local(p, L127(tr[p]))

pred_fake_forward(p) == At(p, 128) /\ Local(p, L128(tr[p]))

loss_D(p) == At(p, 130) /\ \E v \in LossValues : Local(p, L130(tr[p], v))

backward_D(p) == At(p, 132) /\ Local(p, L132(tr[p]))

optimizer_D_step(p) == At(p, 133) /\ Local(p, L133(tr[p]))

loss_sum_D_add(p) == At(p, 136) /\ Local(p, L136(tr[p]))

log_step_test(p) == At(p, 138) /\ Local(p, L138(tr[p]))

logger_info_loss(p) == At(p, 139) /\ Local(p, L139(tr[p]))

loss_sum_G_reset(p) == At(p, 143) /\ Local(p, L143(tr[p]))

loss_sum_D_reset(p) == At(p, 144) /\ Local(p, L144(tr[p]))

test_call(p) == At(p, 145) /\ Local(p, L145(tr[p]))

test_net_G_eval(p) == At(p, 151) /\ Local(p, L151(tr[p]))

test_psnr_init(p) == At(p, 154) /\ Local(p, L154(tr[p]))

test_loop(p) == At(p, 155) /\ Local(p, L155(tr[p]))

test_forward(p) == At(p, 159) /\ Local(p, L159(tr[p]))

test_psnr_add(p) ==
    At(p, 161) /\ \E v \in BatchPsnrSums(tr[p].tit) : Local(p, L161(tr[p], v))

logger_info_psnr(p) == At(p, 166) /\ Local(p, L166(tr[p]))

is_main_test(p) == At(p, 146) /\ Local(p, L146(tr[p], p))

torch_save(p) == At(p, 147) /\ Local(p, L147(tr[p]))

\* 164: the process enters the all-reduce ...
reduce_call(p) ==
    /\ At(p, 164) /\ ~tr[p].in_reduce
    /\ tr' = [tr EXCEPT ![p] = L164_call(tr[p])]
    /\ coll' = [coll EXCEPT ![p] = Append(@, Contribution(tr[p]))]
    /\ UNCHANGED <<args, world, data, img, pad, out>>

\* ... and leaves it with the total once all processes have entered.
reduce_return(p) ==
    /\ At(p, 164) /\ tr[p].in_reduce
    /\ ReduceReady(Len(coll[p]))
    /\ Local(p, L164_return(tr[p], ReduceSum(Len(coll[p]))))

\* Lines 96-144 for one batch in one action; the statements touch nothing
\* outside the process.  Nothing outside the step reads the two losses, so
\* here each takes a single value.
StepLossValues == {MaxLoss}

TrainStep(p) ==
    /\ At(p, 96)
    /\ \E vg \in StepLossValues, vd \in StepLossValues :
          Local(p, IF tr[p].it < data.ntrain
                   THEN StepBody(L96(tr[p]), vg, vd) ELSE L96(tr[p]))

\* PadResize.__call__
Call ==
    /\ out.pc = "idle"
    /\ out' = PadResizeCall(img.w, img.h, pad.w, pad.make_pad)
    /\ UNCHANGED <<args, world, data, tr, coll, img, pad>>

--------------------------------------------------------------------------
(* Specifications                                                          *)

ArgsSet == [epochs : 1..MaxEpochs, log_step : 1..MaxLogStep, bs : 1..MaxBs]

DataSet == [ntrain : 1..MaxBatches, ntest : 1..MaxTest]

Topologies ==
    {w \in [nodes : 1..MaxProcs, per_node : 1..MaxProcs] :
        w.nodes * w.per_node <= MaxProcs}

InitTrainers ==
    /\ tr = [p \in Procs |-> NewTrainer(p)]
    /\ coll = [p \in Procs |-> <<>>]

InitPadIdle ==
    /\ img = [w |-> 1, h |-> 1]
    /\ pad = [w |-> 1, make_pad |-> TRUE]
    /\ out = NoOut

\* one process, statement by statement
Init ==
    /\ args \in ArgsSet
    /\ data \in DataSet
    /\ world = [nodes |-> 1, per_node |-> 1]
    /\ InitTrainers
    /\ InitPadIdle

Next ==
    \E p \in Procs :
        \/ TrainBegin(p)
        \/ EpochLoop(p)
        \/ StepLoop(p)
        \/ net_G_train(p)
        \/ net_G_requires_grad_True(p)
        \/ net_D_eval(p)
        \/ net_D_requires_grad_False(p)
        \/ optimizer_zero_grad(p)
        \/ fake_A_forward(p)
        \/ fake_B_forward(p)
        \/ pred_fake_A_forward(p)
        \/ loss_G(p)
        \/ backward_G(p)
        \/ optimizer_step(p)
        \/ loss_sum_G_add(p)
        \/ net_G_eval(p)
        \/ net_G_requires_grad_False(p)
        \/ net_D_train(p)
        \/ net_D_requires_grad_True(p)
        \/ optimizer_D_zero_grad(p)
        \/ pred_real_forward(p)
        \/ pred_img_fake_forward(p)
        \/ pred_fake_forward(p)
        \/ loss_D(p)
        \/ backward_D(p)
        \/ optimizer_D_step(p)
        \/ loss_sum_D_add(p)
        \/ log_step_test(p)
        \/ logger_info_loss(p)
        \/ loss_sum_G_reset(p)
        \/ loss_sum_D_reset(p)
        \/ test_call(p)
        \/ test_net_G_eval(p)
        \/ test_psnr_init(p)
        \/ test_loop(p)
        \/ test_forward(p)
        \/ test_psnr_add(p)
        \/ logger_info_psnr(p)
        \/ is_main_test(p)
        \/ torch_save(p)
        \/ reduce_call(p)
        \/ reduce_return(p)

Spec == Init /\ [][Next]_vars

\* several processes
InitDist ==
    /\ args \in ArgsSet
    /\ data \in DataSet
    /\ world \in Topologies
    /\ InitTrainers
    /\ InitPadIdle

NextDist ==
    \E p \in Procs :
        \/ TrainBegin(p)
        \/ EpochLoop(p)
        \/ test_call(p)
        \/ test_net_G_eval(p)
        \/ test_psnr_init(p)
        \/ test_loop(p)
        \/ test_forward(p)
        \/ test_psnr_add(p)
        \/ logger_info_psnr(p)
        \/ is_main_test(p)
        \/ torch_save(p)
        \/ TrainStep(p)
        \/ reduce_call(p)
        \/ reduce_return(p)

SpecDist == InitDist /\ [][NextDist]_vars

\* PadResize on its own
InitPad ==
    /\ args = [epochs |-> 1, log_step |-> 1, bs |-> 1]
    /\ data = [ntrain |-> 1, ntest |-> 1]
    /\ world = [nodes |-> 1, per_node |-> 1]
    /\ InitTrainers
    /\ img \in [w : 1..MaxW, h : 1..MaxH]
    /\ pad \in [w : 1..MaxW, make_pad : BOOLEAN]
    /\ out = NoOut

NextPad == Call

SpecPad == InitPad /\ [][NextPad]_vars

--------------------------------------------------------------------------
(* Claims about one optimization step (checked under Spec)                 *)

Trainable(r, n) == r.net[n].requires_grad

TrainMode(r, n) == r.net[n].training

\* C1 as stated: at every instant of a step (between any two consecutive
\* statements of the step body, lines 97-144) exactly one of net_G, net_D
\* has requires_grad set.
C1_ExactlyOneTrainableAlways ==
    \A p \in Procs :
        tr[p].pc \in 102..144 => (Trainable(tr[p], "G") # Trainable(tr[p], "D"))

\* C1 amended: exactly one network is trainable at every instant of a step
\* outside the two flag switches: net_G alone from after line 105 until line
\* 121 runs, net_D alone from after line 123 to the end of the step and on
\* until line 103 of the next step runs.  Inside the switches the flags
\* overlap: both are trainable between lines 103 and 105 (and from the
\* start of the run's first step), neither between lines 121 and 123.
C1_ExactlyOneTrainableOutsideSwitch ==
    \A p \in Procs :
        LET r == tr[p]
            G == Trainable(r, "G")
            D == Trainable(r, "D")
        IN  /\ r.pc \in 106..121 => G /\ ~D
            /\ r.pc \in 124..144 => ~G /\ D
            /\ r.pc \in 104..105 => G /\ D
            /\ r.pc \in 122..123 => ~G /\ ~D
            /\ r.pc \in 102..103 =>
                   IF r.net["G"].params = 0 THEN G /\ D ELSE ~G /\ D

\* a later step, inside the discriminator phase, and inside a flag switch
C1_Witness ==
    \E p \in Procs :
        /\ tr[p].pc = 122
        /\ tr[p].net["D"].params >= 1

\* C2: the discriminator's parameters are the same before and after every
\* statement of the generator phase (lines 102-117), and the generator's
\* before and after every statement of the discriminator phase (lines
\* 120-136).
C2_FrozenParametersUnchanged ==
    [][\A p \in Procs :
          /\ tr[p].pc \in 102..117 =>
                 tr'[p].net["D"].params = tr[p].net["D"].params
          /\ tr[p].pc \in 120..136 =>
                 tr'[p].net["G"].params = tr[p].net["G"].params]_vars

\* a generator phase has just stepped its optimizer while the discriminator,
\* forward-evaluated in that phase, still held the gradient of its own last
\* phase
C2_Witness ==
    \E p \in Procs :
        /\ tr[p].pc = 117
        /\ tr[p].net["G"].params >= 2
        /\ tr[p].net["D"].params >= 1
        /\ tr[p].net["D"].grad = "set"
        /\ tr[p].pred_fake_A = {"G"}

\* C5 as stated: for every windowed record the reported loss_G and loss_D
\* (sum / log_step) are the means of the per-step losses accumulated since
\* the last reset (sum / number of steps accumulated).
C5_WindowIsMean ==
    \A p \in Procs :
        LET g == tr[p].log
        IN  g.kind = "loss" =>
                /\ g.sum_G * g.n_G = g.sum_G * g.div
                /\ g.sum_D * g.n_D = g.sum_D * g.div

\* C9 as stated: neither the epoch index nor the step index ever takes a
\* smaller value.
C9_CountersNeverDecrease ==
    [][\A p \in Procs :
          /\ tr'[p].ep >= tr[p].ep
          /\ tr'[p].step >= tr[p].step]_vars

\* C9 amended: the epoch index never decreases; the step index is
\* enumerate's index into the current epoch: it goes up by one from step to
\* step within an epoch and goes back to 0 at the first step of every epoch.
C9_EpochMonotoneStepPerEpoch ==
    [][\A p \in Procs :
          /\ tr'[p].ep >= tr[p].ep
          /\ tr'[p].step > tr[p].step => tr'[p].step = tr[p].step + 1
          /\ tr'[p].step < tr[p].step =>
                 /\ tr'[p].step = 0
                 /\ tr[p].pc = 96 /\ tr[p].it = 0
                 /\ tr[p].step = data.ntrain - 1]_vars

\* the first step of a later epoch, after an epoch of several steps
C9_Witness ==
    \E p \in Procs :
        /\ tr[p].ep >= 1
        /\ tr[p].step = 0
        /\ tr[p].pc = 102
        /\ data.ntrain >= 2

GeneratorConfig(r) ==
    /\ Trainable(r, "G") /\ TrainMode(r, "G")
    /\ ~Trainable(r, "D") /\ ~TrainMode(r, "D")

DiscriminatorConfig(r) ==
    /\ ~Trainable(r, "G") /\ ~TrainMode(r, "G")
    /\ Trainable(r, "D") /\ TrainMode(r, "D")

\* C10: at every forward pass, backward pass and optimizer step of the
\* generator phase (lines 108, 109, 110, 113, 114) the generator is
\* trainable and in train mode and the discriminator frozen and in eval
\* mode; at those of the discriminator phase (126, 127, 128, 132, 133) the
\* converse; and in each step the generator's update comes before the
\* discriminator's.
C10_ModeFlagsAtUse ==
    \A p \in Procs :
        LET r == tr[p]
        IN  /\ r.pc \in {108, 109, 110, 113, 114} => GeneratorConfig(r)
            /\ r.pc \in {126, 127, 128, 132, 133} => DiscriminatorConfig(r)
            /\ r.pc = 114 => r.net["G"].params = r.net["D"].params
            /\ r.pc = 133 => r.net["G"].params = r.net["D"].params + 1

\* the discriminator's optimizer is about to step, in a later step
C10_Witness ==
    \E p \in Procs :
        /\ tr[p].pc = 133
        /\ tr[p].net["D"].params >= 1
        /\ tr[p].net["D"].grad = "set"

--------------------------------------------------------------------------
(* Claims about the processes of a run (checked under SpecDist)            *)

\* the number of all-reduce calls process p has made
Calls(p) == Len(coll[p])

\* process p is past the call at line 164 of its current test()
Entered(p) == (tr[p].pc = 164 /\ tr[p].in_reduce) \/ tr[p].pc \in {166, 146, 147}

\* the epochs whose checkpoint process p has written
Written(p) == {tr[p].files[i] : i \in DOMAIN tr[p].files}

\* C3 as stated: the value a worker reports for an epoch, psnr /
\* len(self.data_test), equals (sum of the workers' local sums p_i) / (sum of
\* the numbers k_i of samples the workers iterated), and all workers report
\* the same value.
C3_ReportedMeanIsGlobalMean ==
    \A p \in Procs :
        tr[p].report # <<>> =>
            LET k == tr[p].report.ep + 1
            IN  /\ tr[p].report.num * SumTo(world_size - 1, k, "k")
                       = SumTo(world_size - 1, k, "v") * tr[p].report.den
                /\ \A q \in Procs :
                       (tr[q].report # <<>> /\ tr[q].report.ep = tr[p].report.ep)
                           => tr[q].report = tr[p].report

\* C4 as stated: the checkpoint of every epoch is written by at most one
\* process of the run and at most once, never before that epoch's training
\* pass is complete, and by exactly one once the run is over.
C4_SingleWriter ==
    \A e \in 0..(args.epochs - 1) :
        /\ Cardinality({p \in Procs : e \in Written(p)}) <= 1
        /\ \A p \in Procs :
               /\ Cardinality({i \in DOMAIN tr[p].files : tr[p].files[i] = e}) <= 1
               /\ e \in Written(p) =>
                      tr[p].net["G"].params >= (e + 1) * data.ntrain
        /\ (\A p \in Procs : tr[p].pc = 0) =>
               Cardinality({p \in Procs : e \in Written(p)}) = 1

\* C8: every process calls the all-reduce exactly once per epoch, after the
\* epoch's training pass and before the epoch's checkpoint write; no process
\* writes checkpoint e or starts epoch e+1 before every process has entered
\* epoch e's all-reduce; and all processes receive the same total.
C8_ReductionBarrier ==
    \A p \in Procs :
        LET r == tr[p]
        IN  /\ Calls(p) = (IF Entered(p) \/ r.pc \in {94, 95, 0} THEN r.ep + 1 ELSE r.ep)
            /\ Entered(p) => r.net["G"].params = (r.ep + 1) * data.ntrain
            /\ Len(r.files) <= Calls(p)
            /\ Len(r.totals) = (IF r.pc = 164 /\ r.in_reduce THEN Calls(p) - 1 ELSE Calls(p))
            /\ \A q \in Procs :
                   /\ Len(r.files) <= Calls(q)
                   /\ r.ep <= Calls(q)
                   /\ \A k \in DOMAIN r.totals :
                          k \in DOMAIN tr[q].totals => tr[q].totals[k] = r.totals[k]

\* one process has received the total, written epoch 0's checkpoint and
\* started epoch 1 while another is still inside epoch 0's all-reduce
C8_Witness ==
    \E p \in Procs, q \in Procs :
        /\ tr[p].ep = 1 /\ tr[p].files = <<0>> /\ tr[p].pc = 96
        /\ tr[q].ep = 0 /\ tr[q].pc = 164 /\ tr[q].in_reduce
        /\ tr[p].totals = <<coll[p][1].v + coll[q][1].v>>

--------------------------------------------------------------------------
(* Claims about PadResize (checked under SpecPad)                          *)

\* floor((h/w)*S) in exact arithmetic
ExactScaledHeight(w, h, S) == (h * S) \div w

\* C6 as stated: with hs = floor((h/w)*S): if padding is enabled and hs < S
\* the result is S wide and S high, padded (S - hs) // 2 at the top and the
\* rest at the bottom, nothing left or right; otherwise nothing is padded
\* and the result is S wide and hs high.
C6_PaddingSplit ==
    out.pc = "done" =>
        LET S  == pad.w
            hs == ExactScaledHeight(img.w, img.h, S)
        IN  IF pad.make_pad /\ hs < S
            THEN /\ out.size = [w |-> S, h |-> S]
                 /\ out.top = (S - hs) \div 2
                 /\ out.bottom = (S - hs) - (S - hs) \div 2
                 /\ out.left = 0 /\ out.right = 0
            ELSE /\ ~out.padded
                 /\ out.size = [w |-> S, h |-> hs]

==========================================================================
